---- MODULE Spec2Model ----
(***************************************************************************)
(* kitty-js: a stateless client of a cat breed REST service.  Every        *)
(* exported function issues one GET through axios and settles its promise  *)
(* from the transport's settlement with a .then handler (randomImage also  *)
(* with a .catch handler).  The model keeps the invocations in flight, the *)
(* requests they issued, and the record of the last settled invocation.    *)
(***************************************************************************)
EXTENDS Integers, Sequences, FiniteSets, TLC

VARIABLES calls, last

vars == <<calls, last>>

(***************************************************************************)
(* Bounds of the model.                                                    *)
(***************************************************************************)
\* invocations that may be in flight at once (ConcSpec)
MaxCalls == 2
\* longest array the remote service answers with
MaxResp == 2
\* largest explicit limit a caller passes to catBreeds
MaxLimit == 2

(***************************************************************************)
(* JavaScript values.                                                      *)
(***************************************************************************)
Undefined == [t |-> "undefined"]

Null == [t |-> "null"]

Num(n) == [t |-> "number", v |-> n]

Str(s) == [t |-> "string", v |-> s]

Arr(items) == [t |-> "array", items |-> items]

Error(message) == [t |-> "Error", message |-> message]

TypeError(message) == [t |-> "TypeError", message |-> message]

AxiosError(message) == [t |-> "AxiosError", message |-> message]

\* if (v): undefined and null are falsy, objects are truthy
Truthy(v) ==
    CASE v.t = "undefined" -> FALSE
      [] v.t = "null" -> FALSE
      [] v.t = "number" -> v.v # 0
      [] v.t = "string" -> v.v # ""
      [] OTHER -> TRUE

\* data[i] of a JavaScript array: undefined past the end
Index(data, i) == IF i + 1 <= Len(data) THEN data[i + 1] ELSE Undefined

\* o.f for an object o: undefined when the object has no such field
Field(o, f) == IF f \in DOMAIN o THEN o[f] ELSE Undefined

Digit(d) == SubSeq("0123456789", d + 1, d + 1)

RECURSIVE NumberToString(_)
\* the decimal digits of an integer, as a template literal prints it
NumberToString(n) ==
    IF n < 0 THEN "-" \o NumberToString(0 - n)
    ELSE IF n < 10 THEN Digit(n)
    ELSE NumberToString(n \div 10) \o Digit(n % 10)

\* ${v} in a template literal
TemplateString(v) ==
    CASE v.t = "string" -> v.v
      [] v.t = "number" -> NumberToString(v.v)
      [] v.t = "undefined" -> "undefined"
      [] v.t = "null" -> "null"
      [] OTHER -> "[object Object]"

(***************************************************************************)
(* Promise settlements.                                                    *)
(***************************************************************************)
Return(v) == [st |-> "resolved", value |-> v]

Throw(e) == [st |-> "rejected", reason |-> e]

(***************************************************************************)
(* Configuration imported from ./constants.                                *)
(***************************************************************************)
BASE_URL == "https://api/v1/"

CDN_URL == "https://cdn/images/"

API_KEY == "live_key"

ApiKeyHeaders == [XAPIKey |-> API_KEY]

NoHeaders == [none |-> TRUE]

NotFoundMessage == "No such breed found!"

(***************************************************************************)
(* The remote service: the records it holds and the arrays it answers      *)
(* with.  An element of an answer is a record or JSON null.                *)
(***************************************************************************)
Ragdoll ==
    [t |-> "object", name |-> Str("Ragdoll"), description |-> Str("Docile lap cat"),
     temperament |-> Str("Affectionate, Gentle"), life_span |-> Str("12 - 17"),
     child_friendly |-> Num(4), intelligence |-> Num(3), affection_level |-> Num(5),
     reference_image_id |-> Str("oGefY4YoG")]

Sphynx ==
    [t |-> "object", name |-> Str("Sphynx"), description |-> Str("Hairless cat"),
     temperament |-> Str("Loyal, Curious"), life_span |-> Str("12 - 14"),
     child_friendly |-> Num(0), intelligence |-> Num(5), affection_level |-> Num(1),
     reference_image_id |-> Str("BDb8ZXb1v")]

Breeds == {Ragdoll, Sphynx}

Images ==
    {[t |-> "object", url |-> Str(CDN_URL \o "9j5.jpg")],
     [t |-> "object", url |-> Str(CDN_URL \o "MTY.png")]}

\* every array of at most n elements of S
SeqsUpTo(S, n) == UNION {[1..k -> S] : k \in 0..n}

StartsWith(s, p) == Len(s) >= Len(p) /\ SubSeq(s, 1, Len(p)) = p

After(s, p) == SubSeq(s, Len(p) + 1, Len(s))

DigitValue(c) == CHOOSE d \in 0..9 : Digit(d) = c

RECURSIVE ParseDecimal(_)
\* the service's reading of the digits of limit=N
ParseDecimal(s) ==
    IF Len(s) = 0 THEN 0
    ELSE ParseDecimal(SubSeq(s, 1, Len(s) - 1)) * 10 + DigitValue(SubSeq(s, Len(s), Len(s)))

\* the endpoint a request addresses
Endpoint(req) ==
    LET path == After(req.url, BASE_URL)
    IN  CASE path = "images/search" -> "images"
          [] StartsWith(path, "breeds/search?q=") -> "search"
          [] StartsWith(path, "breeds?limit=") -> "listing"
          [] OTHER -> "unknown"

\* the limit a listing request carries
RequestedLimit(req) == ParseDecimal(After(After(req.url, BASE_URL), "breeds?limit="))

\* the arrays the service may answer a request with
ServiceData(req) ==
    CASE Endpoint(req) = "images" -> SeqsUpTo(Images \cup {Null}, MaxResp)
      [] Endpoint(req) = "search" -> SeqsUpTo(Breeds \cup {Null}, MaxResp)
      [] Endpoint(req) = "listing" ->
            {d \in SeqsUpTo(Breeds, MaxResp) : Len(d) <= RequestedLimit(req)}
      [] OTHER -> {}

\* the failures the transport may reject a request with
TransportErrors ==
    {AxiosError("Network Error"), AxiosError("Request failed with status code 500")}

(***************************************************************************)
(* The exported functions.  For a function f: fGet is the request it hands *)
(* to axios.get, fThen its .then handler, and f the settlement of the      *)
(* promise it returns, given the settlement of the GET.                    *)
(***************************************************************************)
DefaultLimit == 30

randomImageGet == [url |-> BASE_URL \o "images/search", headers |-> NoHeaders]

\* res.data[0].url: reading a property of undefined or null raises
randomImageThen(res) ==
    LET first == Index(res.data, 0)
    IN  IF first.t \in {"undefined", "null"}
        THEN Throw(TypeError("Cannot read properties of " \o first.t))
        ELSE Return(Field(first, "url"))

\* variant: the handler rethrows after logging
randomImageCatchRethrow(err) == Throw(err)

\* console.error(err) returns undefined
randomImageCatch(err) == Return(Undefined)

\* variant: the chain has no .catch
randomImageNoCatch(settled) ==
    IF settled.st = "resolved" THEN randomImageThen(settled.value) ELSE settled

randomImage(settled) ==
    LET then == IF settled.st = "resolved" THEN randomImageThen(settled.value) ELSE settled
    IN  IF then.st = "rejected" THEN randomImageCatch(then.reason) ELSE then

\* what randomImage passes to console.error
randomImageLogged(settled) ==
    LET then == IF settled.st = "resolved" THEN randomImageThen(settled.value) ELSE settled
    IN  IF then.st = "rejected" THEN <<then.reason>> ELSE <<>>

\* variant: the limit argument is dropped
catBreedsGetDefaultOnly(limit) ==
    [url |-> BASE_URL \o "breeds?limit=" \o TemplateString(Num(DefaultLimit)),
     headers |-> ApiKeyHeaders]

catBreedsGet(limit) ==
    LET l == IF limit = Undefined THEN Num(DefaultLimit) ELSE limit
    IN  [url |-> BASE_URL \o "breeds?limit=" \o TemplateString(l), headers |-> ApiKeyHeaders]

catBreedsThen(res) == Return(Arr(res.data))

catBreeds(settled) == IF settled.st = "resolved" THEN catBreedsThen(settled.value) ELSE settled

\* GET breeds/search?q=<query> with the API key header
SearchGet(query) ==
    [url |-> BASE_URL \o "breeds/search?q=" \o TemplateString(query), headers |-> ApiKeyHeaders]

catBreedGet(query) == SearchGet(IF query = Undefined THEN Str("") ELSE query)

\* variant: takes the last element of the answer
catBreedThenLast(res) ==
    IF Len(res.data) > 0 /\ Truthy(res.data[Len(res.data)])
    THEN Return(res.data[Len(res.data)])
    ELSE Throw(Error(NotFoundMessage))

catBreedThen(res) ==
    IF Truthy(Index(res.data, 0))
    THEN Return(Index(res.data, 0))
    ELSE Throw(Error(NotFoundMessage))

catBreed(settled) == IF settled.st = "resolved" THEN catBreedThen(settled.value) ELSE settled

catBreedImageGet(query) == SearchGet(query)

\* variant: the file extension is left out
catBreedImageThenNoExtension(res) ==
    IF Truthy(Index(res.data, 0))
    THEN Return(Str(CDN_URL \o TemplateString(Field(Index(res.data, 0), "reference_image_id"))))
    ELSE Throw(Error(NotFoundMessage))

catBreedImageThen(res) ==
    IF Truthy(Index(res.data, 0))
    THEN Return(Str(CDN_URL \o TemplateString(Field(Index(res.data, 0), "reference_image_id"))
                    \o ".jpg"))
    ELSE Throw(Error(NotFoundMessage))

catBreedImage(settled) ==
    IF settled.st = "resolved" THEN catBreedImageThen(settled.value) ELSE settled

catBreedDescriptionGet(query) == SearchGet(query)

\* variant: skips falsy elements and takes the first record of the answer
catBreedDescriptionThenFirstTruthy(res) ==
    LET found == {i \in 1..Len(res.data) : Truthy(res.data[i])}
    IN  IF found # {}
        THEN Return(Field(res.data[CHOOSE i \in found : \A j \in found : i <= j], "description"))
        ELSE Throw(Error(NotFoundMessage))

catBreedDescriptionThen(res) ==
    IF Truthy(Index(res.data, 0))
    THEN Return(Field(Index(res.data, 0), "description"))
    ELSE Throw(Error(NotFoundMessage))

catBreedDescription(settled) ==
    IF settled.st = "resolved" THEN catBreedDescriptionThen(settled.value) ELSE settled

catBreedChildFriendlinessGet(query) == SearchGet(query)

\* variant: 0 stands for not found
catBreedChildFriendlinessThenZero(res) ==
    IF Truthy(Index(res.data, 0))
    THEN Return(Field(Index(res.data, 0), "child_friendly"))
    ELSE Return(Num(0))

catBreedChildFriendlinessThen(res) ==
    IF Truthy(Index(res.data, 0))
    THEN Return(Field(Index(res.data, 0), "child_friendly"))
    ELSE Throw(Error(NotFoundMessage))

catBreedChildFriendliness(settled) ==
    IF settled.st = "resolved" THEN catBreedChildFriendlinessThen(settled.value) ELSE settled

breedLifeSpanGet(query) == SearchGet(query)

breedLifeSpanThen(res) ==
    IF Truthy(Index(res.data, 0))
    THEN Return(Field(Index(res.data, 0), "life_span"))
    ELSE Throw(Error(NotFoundMessage))

breedLifeSpan(settled) ==
    IF settled.st = "resolved" THEN breedLifeSpanThen(settled.value) ELSE settled

breedTemperamentGet(query) == SearchGet(query)

\* variant: a copy of the description accessor with the field left unchanged
breedTemperamentThenDescription(res) ==
    IF Truthy(Index(res.data, 0))
    THEN Return(Field(Index(res.data, 0), "description"))
    ELSE Throw(Error(NotFoundMessage))

breedTemperamentThen(res) ==
    IF Truthy(Index(res.data, 0))
    THEN Return(Field(Index(res.data, 0), "temperament"))
    ELSE Throw(Error(NotFoundMessage))

breedTemperament(settled) ==
    IF settled.st = "resolved" THEN breedTemperamentThen(settled.value) ELSE settled

breedIntelligenceGet(query) == SearchGet(query)

breedIntelligenceThen(res) ==
    IF Truthy(Index(res.data, 0))
    THEN Return(Field(Index(res.data, 0), "intelligence"))
    ELSE Throw(Error(NotFoundMessage))

breedIntelligence(settled) ==
    IF settled.st = "resolved" THEN breedIntelligenceThen(settled.value) ELSE settled

breedAffectionGet(query) == SearchGet(query)

\* variant: optional chaining in place of the not-found check
breedAffectionThenUnchecked(res) ==
    IF Truthy(Index(res.data, 0))
    THEN Return(Field(Index(res.data, 0), "affection_level"))
    ELSE Return(Undefined)

breedAffectionThen(res) ==
    IF Truthy(Index(res.data, 0))
    THEN Return(Field(Index(res.data, 0), "affection_level"))
    ELSE Throw(Error(NotFoundMessage))

breedAffection(settled) ==
    IF settled.st = "resolved" THEN breedAffectionThen(settled.value) ELSE settled

(***************************************************************************)
(* The module's exports, by name.                                          *)
(***************************************************************************)
Lookups ==
    {"catBreed", "catBreedDescription", "catBreedImage", "catBreedChildFriendliness",
     "breedLifeSpan", "breedTemperament", "breedIntelligence", "breedAffection"}

Ops == {"randomImage", "catBreeds"} \cup Lookups

\* the request the call op(arg) issues
Request(op, arg) ==
    CASE op = "randomImage" -> randomImageGet
      [] op = "catBreeds" -> catBreedsGet(arg)
      [] op = "catBreed" -> catBreedGet(arg)
      [] op = "catBreedDescription" -> catBreedDescriptionGet(arg)
      [] op = "catBreedImage" -> catBreedImageGet(arg)
      [] op = "catBreedChildFriendliness" -> catBreedChildFriendlinessGet(arg)
      [] op = "breedLifeSpan" -> breedLifeSpanGet(arg)
      [] op = "breedTemperament" -> breedTemperamentGet(arg)
      [] op = "breedIntelligence" -> breedIntelligenceGet(arg)
      [] op = "breedAffection" -> breedAffectionGet(arg)

\* the settlement of the promise op returned, given the settlement of its GET
Settle(op, settled) ==
    CASE op = "randomImage" -> randomImage(settled)
      [] op = "catBreeds" -> catBreeds(settled)
      [] op = "catBreed" -> catBreed(settled)
      [] op = "catBreedDescription" -> catBreedDescription(settled)
      [] op = "catBreedImage" -> catBreedImage(settled)
      [] op = "catBreedChildFriendliness" -> catBreedChildFriendliness(settled)
      [] op = "breedLifeSpan" -> breedLifeSpan(settled)
      [] op = "breedTemperament" -> breedTemperament(settled)
      [] op = "breedIntelligence" -> breedIntelligence(settled)
      [] op = "breedAffection" -> breedAffection(settled)

\* what the call wrote to the console
Logged(op, settled) == IF op = "randomImage" THEN randomImageLogged(settled) ELSE <<>>

(***************************************************************************)
(* The callers' inputs.                                                    *)
(***************************************************************************)
Queries == {Str("ragd"), Str("")}

Limits == {Num(n) : n \in 0..MaxLimit}

\* the arguments a caller passes; Undefined is an omitted argument
Args(op) ==
    CASE op = "randomImage" -> {Undefined}
      [] op = "catBreeds" -> {Undefined} \cup Limits
      [] op = "catBreed" -> {Undefined} \cup Queries
      [] OTHER -> Queries

(***************************************************************************)
(* State: calls[c] is the invocation in flight in slot c, last the record  *)
(* of the invocation that settled last.                                    *)
(***************************************************************************)
Idle == [st |-> "idle"]

NoCall == [op |-> "none"]

Slots == 1..MaxCalls

Init ==
    /\ calls = [c \in Slots |-> Idle]
    /\ last = NoCall

\* variant: an invocation whose request equals one in flight issues none and shares it
InvokeCoalesced(c, op, arg) ==
    /\ calls[c].st = "idle"
    /\ calls' = [calls EXCEPT ![c] =
                    [st |-> "pending", op |-> op, arg |-> arg,
                     sent |-> IF \E d \in Slots : /\ calls[d].st = "pending"
                                                  /\ calls[d].sent = <<Request(op, arg)>>
                              THEN <<>>
                              ELSE <<Request(op, arg)>>]]
    /\ UNCHANGED last

\* a caller invokes op(arg): the function issues its GET and returns a pending promise
Invoke(c, op, arg) ==
    /\ calls[c].st = "idle"
    /\ calls' = [calls EXCEPT ![c] =
                    [st |-> "pending", op |-> op, arg |-> arg, sent |-> <<Request(op, arg)>>]]
    /\ UNCHANGED last

\* the GET of slot c settles and the function's handlers run
Complete(c, settled) ==
    /\ last' = [id |-> c, op |-> calls[c].op, arg |-> calls[c].arg, sent |-> calls[c].sent,
                settled |-> settled, outcome |-> Settle(calls[c].op, settled),
                logged |-> Logged(calls[c].op, settled)]
    /\ calls' = [calls EXCEPT ![c] = Idle]

\* the service answers the request of slot c with the array data
Respond(c, data) ==
    /\ calls[c].st = "pending"
    /\ Len(calls[c].sent) > 0
    /\ data \in ServiceData(calls[c].sent[1])
    /\ Complete(c, Return([data |-> data]))

\* the transport fails the request of slot c
Fail(c, err) ==
    /\ calls[c].st = "pending"
    /\ Len(calls[c].sent) > 0
    /\ Complete(c, Throw(err))

\* every array the service may send on any endpoint
AllData == SeqsUpTo(Breeds \cup Images \cup {Null}, MaxResp)

\* a caller that awaits each call before the next
Next ==
    \/ \E op \in Ops : \E arg \in Args(op) : Invoke(1, op, arg)
    \/ \E data \in AllData : Respond(1, data)
    \/ \E err \in TransportErrors : Fail(1, err)

Spec == Init /\ [][Next]_vars

(***************************************************************************)
(* Callers that do not await: up to MaxCalls invocations in flight, the    *)
(* settlements arriving in any order.                                      *)
(***************************************************************************)
ConcArgs(op) ==
    CASE op = "randomImage" -> {Undefined}
      [] op = "catBreeds" -> {Num(1)}
      [] OTHER -> {Str("ragd")}

ConcData == SeqsUpTo(Breeds \cup Images \cup {Null}, 1)

ConcNext ==
    \E c \in Slots :
        \/ \E op \in Ops : \E arg \in ConcArgs(op) : Invoke(c, op, arg)
        \/ \E data \in ConcData : Respond(c, data)
        \/ Fail(c, AxiosError("Network Error"))

ConcSpec == Init /\ [][ConcNext]_vars

(***************************************************************************)
(* Vocabulary of the properties.                                           *)
(***************************************************************************)
\* an invocation has settled
Done == last.op # "none"

\* the GET of the last invocation was answered with an array
Answered == Done /\ last.settled.st = "resolved"

\* the array it was answered with
Data == last.settled.value.data

\* the first element of that array is a breed or image record
Matched == Answered /\ Len(Data) >= 1 /\ Data[1].t = "object"

NumericOps == {"catBreedChildFriendliness", "breedIntelligence", "breedAffection"}

\* the record field each specialised accessor is documented to return
FieldOf(op) ==
    CASE op = "catBreedDescription" -> "description"
      [] op = "breedTemperament" -> "temperament"
      [] op = "catBreedChildFriendliness" -> "child_friendly"
      [] op = "breedLifeSpan" -> "life_span"
      [] op = "breedIntelligence" -> "intelligence"
      [] op = "breedAffection" -> "affection_level"

\* the accessors that return one field of the record
Projections == Lookups \ {"catBreed", "catBreedImage"}

NotFound == [st |-> "rejected", reason |-> [t |-> "Error", message |-> "No such breed found!"]]

C2_AsClaimed ==
    (Answered /\ last.op = "catBreed" /\ Len(Data) >= 1)
        => last.outcome = [st |-> "resolved", value |-> Data[1]]

(***************************************************************************)
(* C2, amended.  Whenever the first element of the search answer is a      *)
(* record, catBreed resolves with that first element, never a later one,   *)
(* and does not fail; an answer that starts with null is not covered.      *)
(***************************************************************************)
C2_FirstRecordReturned ==
    (Matched /\ last.op = "catBreed")
        => last.outcome = [st |-> "resolved", value |-> Data[1]]

C2_Witness ==
    /\ Matched
    /\ last.op = "catBreed"
    /\ Len(Data) = 2
    /\ Data[2].t = "object"
    /\ Data[2] # Data[1]
    /\ last.outcome.st = "resolved"
    /\ last.outcome.value = Data[1]

(***************************************************************************)
(* C3.  A numeric trait accessor resolves with an integer in 0..5 when the *)
(* answer has a matched first record and rejects when it has none; a call  *)
(* that resolved with 0 had a matched record whose trait is 0.             *)
(***************************************************************************)
C3_TraitInRangeOrThrows ==
    (Answered /\ last.op \in NumericOps) =>
        /\ Matched =>
              /\ last.outcome.st = "resolved"
              /\ last.outcome.value.t = "number"
              /\ last.outcome.value.v \in 0..5
        /\ ~Matched => last.outcome.st = "rejected"
        /\ (last.outcome.st = "resolved" /\ last.outcome.value = [t |-> "number", v |-> 0])
              => (Matched /\ Data[1][FieldOf(last.op)].v = 0)

C3_Witness ==
    /\ Matched
    /\ last.op = "catBreedChildFriendliness"
    /\ Data[1].child_friendly.v = 0
    /\ last.outcome = [st |-> "resolved", value |-> [t |-> "number", v |-> 0]]

(***************************************************************************)
(* C4.  With a matched first record r, catBreedImage resolves with the     *)
(* string made of CDN_URL, then r.reference_image_id, then ".jpg".         *)
(***************************************************************************)
C4_ImageUrlShape ==
    (Matched /\ last.op = "catBreedImage") =>
        /\ last.outcome.st = "resolved"
        /\ last.outcome.value.t = "string"
        /\ LET u == last.outcome.value.v
               id == Data[1].reference_image_id.v
               n == Len(CDN_URL)
           IN  /\ Len(u) = n + Len(id) + 4
               /\ SubSeq(u, 1, n) = CDN_URL
               /\ SubSeq(u, n + 1, n + Len(id)) = id
               /\ SubSeq(u, n + Len(id) + 1, Len(u)) = ".jpg"

C4_Witness ==
    /\ Matched
    /\ last.op = "catBreedImage"
    /\ Len(Data) = 2
    /\ Data[2].t = "object"
    /\ Data[1].reference_image_id # Data[2].reference_image_id
    /\ last.outcome.st = "resolved"
    /\ StartsWith(last.outcome.value.v, CDN_URL)

(***************************************************************************)
(* C5.  catBreeds issues one listing request that carries the caller's     *)
(* limit as given (30 when omitted) and resolves with the service's array  *)
(* as it came: same elements, same order, of length <= limit.              *)
(***************************************************************************)
C5_ListingPassthrough ==
    (Done /\ last.op = "catBreeds") =>
        LET limit == IF last.arg.t = "undefined" THEN 30 ELSE last.arg.v
        IN  /\ Len(last.sent) = 1
            /\ Endpoint(last.sent[1]) = "listing"
            /\ RequestedLimit(last.sent[1]) = limit
            /\ Answered =>
                  /\ last.outcome.st = "resolved"
                  /\ last.outcome.value.t = "array"
                  /\ last.outcome.value.items = Data
                  /\ Len(last.outcome.value.items) <= limit

C5_Witness ==
    /\ Answered
    /\ last.op = "catBreeds"
    /\ last.arg = [t |-> "number", v |-> 2]
    /\ Data = <<Sphynx, Ragdoll>>
    /\ last.outcome.st = "resolved"
    /\ last.outcome.value.items = <<Sphynx, Ragdoll>>

(***************************************************************************)
(* C6.  When the GET fails, catBreeds and every breed-lookup accessor      *)
(* reject with the transport's error, while randomImage logs the error and *)
(* resolves with undefined.                                                *)
(***************************************************************************)
C6_TransportFailure ==
    (Done /\ last.settled.st = "rejected") =>
        IF last.op = "randomImage"
        THEN /\ last.outcome = [st |-> "resolved", value |-> [t |-> "undefined"]]
             /\ last.logged = <<last.settled.reason>>
        ELSE /\ last.outcome = [st |-> "rejected", reason |-> last.settled.reason]
             /\ last.logged = <<>>

C6_Witness ==
    /\ Done
    /\ last.op = "randomImage"
    /\ last.settled.st = "rejected"
    /\ last.outcome.st = "resolved"
    /\ Len(last.logged) = 1

(***************************************************************************)
(* C7.  Each specialised accessor settles as catBreed followed by a        *)
(* projection: it rejects exactly when catBreed rejects on the same        *)
(* settlement, with the same error, and otherwise resolves with its field  *)
(* of the record catBreed resolves with.                                   *)
(***************************************************************************)
C7_AccessorIsProjection ==
    (Done /\ last.op \in Projections) =>
        LET whole == catBreed(last.settled)
        IN  IF whole.st = "rejected"
            THEN last.outcome = whole
            ELSE last.outcome = [st |-> "resolved", value |-> whole.value[FieldOf(last.op)]]

C7_Witness ==
    /\ Matched
    /\ last.op = "breedLifeSpan"
    /\ last.outcome.st = "resolved"
    /\ last.outcome.value = Data[1].life_span
    /\ last.outcome.value # Data[1].temperament

(***************************************************************************)
(* C8.  Invocations in flight together are independent round trips: each   *)
(* has issued exactly one request, its own, also when another invocation   *)
(* with an equal request is in flight, and it settles from the settlement  *)
(* of its own request alone, whatever the order of arrival.                *)
(***************************************************************************)
C8_IndependentRoundTrips ==
    /\ \A c \in Slots :
          calls[c].st = "pending" =>
              /\ Len(calls[c].sent) = 1
              /\ calls[c].sent[1] = Request(calls[c].op, calls[c].arg)
    /\ Done =>
          /\ Len(last.sent) = 1
          /\ last.sent[1] = Request(last.op, last.arg)
          /\ last.outcome = Settle(last.op, last.settled)
          /\ Answered => Data \in ServiceData(last.sent[1])

C8_Witness ==
    /\ Done
    /\ last.id = 2
    /\ calls[1].st = "pending"
    /\ calls[1].sent = last.sent
    /\ calls[2].st = "idle"
    /\ last.op = "catBreed"
    /\ last.outcome.st = "resolved"

(***************************************************************************)
(* C9.  randomImage never rejects: it resolves with the url of the first   *)
(* element when the answer has one (a null element has no url), and with   *)
(* undefined when the answer is empty or the GET failed.                   *)
(***************************************************************************)
C9_RandomImageNeverRejects ==
    (Done /\ last.op = "randomImage") =>
        /\ last.outcome.st = "resolved"
        /\ last.outcome.value =
              IF Matched THEN Data[1].url ELSE [t |-> "undefined"]

C9_Witness ==
    /\ Answered
    /\ last.op = "randomImage"
    /\ Len(Data) = 0
    /\ last.outcome.st = "resolved"
    /\ Len(last.logged) = 1
    /\ last.logged[1].t = "TypeError"

(***************************************************************************)
(* C10.  A breed-lookup accessor rejects with "No such breed found!"       *)
(* exactly when the first element of the answer is absent or null, also    *)
(* when later elements are records, and its settlement is the one it       *)
(* reaches on the answer cut down to its first element.                    *)
(***************************************************************************)
C10_FirstElementDecides ==
    (Answered /\ last.op \in Lookups) =>
        /\ (last.outcome = NotFound) <=> ~Matched
        /\ last.outcome =
              Settle(last.op, [st |-> "resolved",
                               value |-> [data |-> SubSeq(Data, 1, IF Len(Data) = 0 THEN 0 ELSE 1)]])

C10_Witness ==
    /\ Answered
    /\ last.op = "catBreedImage"
    /\ Len(Data) = 2
    /\ Data[1].t = "null"
    /\ Data[2].t = "object"
    /\ last.outcome = NotFound

====
